---- MODULE Spec2Model ----
(***************************************************************************)
(* A model of src/exporter.py: the three exporters (MarkdownExporter,      *)
(* ObsidianExporter, WebExporter), their renderers and export_papers.      *)
(*                                                                         *)
(* A Python str is a sequence of one-character strings.  An Optional[str]  *)
(* is <<>> for None and <<s>> for the string s.  A rendered document is a  *)
(* sequence of blocks [k |-> kind, v |-> list of strings], one block per   *)
(* piece the code appends to the document, in the order it appends them.   *)
(***************************************************************************)
EXTENDS Integers, Sequences, FiniteSets, TLC

(***************************************************************************)
(* Characters and the str methods the code uses                            *)
(***************************************************************************)

\* The printable ASCII characters in code-point order: 32..95, then 97..126
\* (code point 96 cannot be written in a string of this language and is left out).
AsciiLow ==
  << " ", "!", "\"", "#", "$", "%", "&", "'", "(", ")", "*", "+", ",", "-", ".", "/",
     "0", "1", "2", "3", "4", "5", "6", "7", "8", "9", ":", ";", "<", "=", ">", "?",
     "@", "A", "B", "C", "D", "E", "F", "G", "H", "I", "J", "K", "L", "M", "N", "O",
     "P", "Q", "R", "S", "T", "U", "V", "W", "X", "Y", "Z", "[", "\\", "]", "^", "_" >>

AsciiHigh ==
  << "a", "b", "c", "d", "e", "f", "g", "h", "i", "j", "k", "l", "m", "n", "o",
     "p", "q", "r", "s", "t", "u", "v", "w", "x", "y", "z", "{", "|", "}", "~" >>

AsciiSet ==
  {AsciiLow[i] : i \in 1..Len(AsciiLow)} \cup {AsciiHigh[i] : i \in 1..Len(AsciiHigh)}

\* ord(c) of a printable ASCII character.
Ord(c) ==
  IF \E i \in 1..Len(AsciiLow) : AsciiLow[i] = c
  THEN 31 + (CHOOSE i \in 1..Len(AsciiLow) : AsciiLow[i] = c)
  ELSE 96 + (CHOOSE i \in 1..Len(AsciiHigh) : AsciiHigh[i] = c)

\* chr(n) for 97 <= n <= 126.
Chr(n) == AsciiHigh[n - 96]

\* c.lower() of one character: A..Z map to a..z, everything else is kept.
LowerChar(c) ==
  IF c \in AsciiSet /\ Ord(c) \in 65..90 THEN Chr(Ord(c) + 32) ELSE c

\* s.lower()
Lower(s) == [i \in 1..Len(s) |-> LowerChar(s[i])]

\* The characters str.strip() removes.
Whitespace == {" ", "\n", "\t", "\r"}

RECURSIVE LStrip(_)
LStrip(s) ==
  IF s # <<>> /\ s[1] \in Whitespace THEN LStrip(Tail(s)) ELSE s

RECURSIVE RStrip(_)
RStrip(s) ==
  IF s # <<>> /\ s[Len(s)] \in Whitespace THEN RStrip(SubSeq(s, 1, Len(s) - 1)) ELSE s

\* s.strip()
Strip(s) == RStrip(LStrip(s))

\* s.startswith(p)
StartsWith(s, p) == Len(s) >= Len(p) /\ SubSeq(s, 1, Len(p)) = p

\* s.replace(pat, rep), pat not empty: every non-overlapping occurrence, left to right.
RECURSIVE Replace(_, _, _)
Replace(s, pat, rep) ==
  IF Len(s) < Len(pat) THEN s
  ELSE IF SubSeq(s, 1, Len(pat)) = pat
       THEN rep \o Replace(SubSeq(s, Len(pat) + 1, Len(s)), pat, rep)
       ELSE <<s[1]>> \o Replace(Tail(s), pat, rep)

\* s.split(ch) on a one-character separator: always at least one piece.
RECURSIVE Split(_, _)
Split(s, ch) ==
  IF \A i \in 1..Len(s) : s[i] # ch THEN <<s>>
  ELSE LET i == CHOOSE j \in 1..Len(s) : s[j] = ch /\ \A m \in 1..(j - 1) : s[m] # ch
       IN  <<SubSeq(s, 1, i - 1)>> \o Split(SubSeq(s, i + 1, Len(s)), ch)

\* re.sub(r'(?i)<label>', '', s): every non-overlapping match of the label,
\* compared case-insensitively, is removed, wherever it is in s.
RECURSIVE ReSubCI(_, _)
ReSubCI(label, s) ==
  IF Len(s) < Len(label) THEN s
  ELSE IF Lower(SubSeq(s, 1, Len(label))) = label
       THEN ReSubCI(label, SubSeq(s, Len(label) + 1, Len(s)))
       ELSE <<s[1]>> \o ReSubCI(label, Tail(s))

\* a < b for str: lexicographic on code points, a proper prefix first.
RECURSIVE StrLess(_, _)
StrLess(a, b) ==
  IF b = <<>> THEN FALSE
  ELSE IF a = <<>> THEN TRUE
  ELSE IF a[1] = b[1] THEN StrLess(Tail(a), Tail(b))
  ELSE Ord(a[1]) < Ord(b[1])

\* The flattening of a sequence of sequences.
RECURSIVE Concat(_)
Concat(ss) == IF ss = <<>> THEN <<>> ELSE Head(ss) \o Concat(Tail(ss))

(***************************************************************************)
(* Optional values and truthiness                                          *)
(***************************************************************************)

None == <<>>
Some(s) == <<s>>

\* `if x:` for an Optional[str]: None and "" are false.
Truthy(o) == o # None /\ o[1] # <<>>

(***************************************************************************)
(* The summary labels                                                      *)
(***************************************************************************)

TopicsLabel  == <<"t", "o", "p", "i", "c", "s", ":", "]">>
TldrLabel    == <<"t", "l", ";", "d", "r", ":", "]">>
SummaryLabel == <<"s", "u", "m", "m", "a", "r", "y", ":", "]">>

\* paper.summary.replace('**', '').replace('__', '')
CleanSummary(s) == Replace(Replace(s, <<"*", "*">>, <<>>), <<"_", "_">>, <<>>)

\* clean_summary.split('[')
Sections(s) == Split(CleanSummary(s), "[")

\* The branch of the if/elif chain a section takes: its label, or "none".
SectionLabel(section) ==
  IF StartsWith(Lower(section), TopicsLabel) THEN "topics"
  ELSE IF StartsWith(Lower(section), TldrLabel) THEN "tldr"
  ELSE IF StartsWith(Lower(section), SummaryLabel) THEN "summary"
  ELSE "none"

LabelText(l) ==
  CASE l = "topics" -> TopicsLabel
    [] l = "tldr" -> TldrLabel
    [] l = "summary" -> SummaryLabel

\* re.sub(r'(?i)<label>', '', section).strip()
SectionValue(section) == Strip(ReSubCI(LabelText(SectionLabel(section)), section))

\* [t.strip() for t in topics.split(',')]
TopicList(topics) ==
  LET parts == Split(topics, ",") IN [i \in 1..Len(parts) |-> Strip(parts[i])]

\* "#" + topic.replace(' ', '-').replace('\'', '').lower()
TopicTag(topic) ==
  <<"#">> \o Lower(Replace(Replace(topic, <<" ">>, <<"-">>), <<"'">>, <<>>))

(***************************************************************************)
(* Documents                                                               *)
(***************************************************************************)

\* One piece of a document: its kind and the strings it carries.
B(kind, strings) == [k |-> kind, v |-> strings]

\* The kind of the subheading block of a label.
HeadingKind(l) ==
  CASE l = "topics" -> "h_topics"
    [] l = "tldr" -> "h_tldr"
    [] l = "summary" -> "h_summary"

\* MarkdownExporter._format_paper, one pass of the loop over the sections:
\* a matching section appends its subheading and its value, whatever the value.
MdSection(section) ==
  IF SectionLabel(section) = "none" THEN <<>>
  ELSE << B(HeadingKind(SectionLabel(section)), <<>>),
          B("text", <<SectionValue(section)>>) >>

\* The Optional[str] summary is looped over only when it is truthy.
SectionsOf(paper) == IF Truthy(paper.summary) THEN Sections(paper.summary[1]) ELSE <<>>

\* A faulty variant of MarkdownFormatPaper: the URL line is put before the subsections.
MarkdownFormatPaperUrlFirst(paper) ==
  LET secs == SectionsOf(paper)
  IN  << B("h_paper", <<paper.title[1]>>) >>
      \o (IF Truthy(paper.pdf_url) THEN << B("paper_url", <<paper.pdf_url[1]>>) >> ELSE <<>>)
      \o Concat([i \in 1..Len(secs) |-> MdSection(secs[i])])
      \o << B("rule", <<>>) >>

\* MarkdownExporter._format_paper
MarkdownFormatPaper(paper) ==
  LET secs == SectionsOf(paper)
  IN  << B("h_paper", <<paper.title[1]>>) >>
      \o Concat([i \in 1..Len(secs) |-> MdSection(secs[i])])
      \o (IF Truthy(paper.pdf_url) THEN << B("paper_url", <<paper.pdf_url[1]>>) >> ELSE <<>>)
      \o << B("rule", <<>>) >>

\* ObsidianExporter._format_paper, one pass of the loop over the sections.
ObsSection(section) ==
  CASE SectionLabel(section) = "none" -> <<>>
    [] SectionLabel(section) = "topics" ->
         LET topic_list == TopicList(SectionValue(section))
         IN  << B("tags", [i \in 1..Len(topic_list) |-> TopicTag(topic_list[i])]) >>
    [] OTHER ->
         << B(HeadingKind(SectionLabel(section)), <<>>),
            B("text", <<SectionValue(section)>>) >>

\* ObsidianExporter._format_paper
ObsidianFormatPaper(paper) ==
  LET secs == SectionsOf(paper)
  IN  << B("rule", <<>>), B("h_paper", <<paper.title[1]>>) >>
      \o Concat([i \in 1..Len(secs) |-> ObsSection(secs[i])])
      \o (IF Truthy(paper.pdf_url) THEN << B("paper_link", <<paper.pdf_url[1]>>) >> ELSE <<>>)

\* A faulty variant of AssignSection: a key that already holds a value keeps it.
AssignSectionKeepFirst(d, section) ==
  CASE SectionLabel(section) = "topics" /\ d.topics = <<>> ->
         [d EXCEPT !.topics = TopicList(SectionValue(section))]
    [] SectionLabel(section) = "tldr" /\ d.tldr = <<>> ->
         [d EXCEPT !.tldr = SectionValue(section)]
    [] SectionLabel(section) = "summary" /\ d.summary = <<>> ->
         [d EXCEPT !.summary = SectionValue(section)]
    [] OTHER -> d

\* WebExporter.generate_html, the body of the loop over the sections: the
\* matching key of paper_dict is assigned, overwriting what it held.
AssignSection(d, section) ==
  CASE SectionLabel(section) = "topics" ->
         [d EXCEPT !.topics = TopicList(SectionValue(section))]
    [] SectionLabel(section) = "tldr" -> [d EXCEPT !.tldr = SectionValue(section)]
    [] SectionLabel(section) = "summary" -> [d EXCEPT !.summary = SectionValue(section)]
    [] OTHER -> d

RECURSIVE AssignAll(_, _)
AssignAll(d, secs) ==
  IF secs = <<>> THEN d ELSE AssignAll(AssignSection(d, Head(secs)), Tail(secs))

\* WebExporter.generate_html: the paper_dict of one paper.
PaperDict(paper) ==
  AssignAll([title |-> paper.title[1], pdf_url |-> paper.pdf_url,
             topics |-> <<>>, tldr |-> <<>>, summary |-> <<>>],
            SectionsOf(paper))

\* The entry of one paper in the serialized papers_data array.
WebFormatPaper(paper) ==
  LET d == PaperDict(paper)
  IN  << B("h_paper", <<d.title>>), B("json_pdf_url", d.pdf_url),
         B("json_topics", d.topics), B("json_tldr", <<d.tldr>>),
         B("json_summary", <<d.summary>>) >>

(***************************************************************************)
(* Sorting                                                                 *)
(***************************************************************************)

\* A faulty variant of SortKey: the title as it is, case not folded.
SortKeyRaw(paper) == paper.title[1]

\* The sort key of a paper: x.title.lower()
SortKey(paper) == Lower(paper.title[1])

\* Insertion of p into a sorted list after every element whose key is not greater.
RECURSIVE Insert(_, _)
Insert(p, sorted) ==
  IF sorted = <<>> THEN <<p>>
  ELSE IF StrLess(SortKey(p), SortKey(Head(sorted)))
       THEN <<p>> \o sorted
       ELSE <<Head(sorted)>> \o Insert(p, Tail(sorted))

\* sorted(papers, key=lambda x: x.title.lower()): a new list, stable.
RECURSIVE SortedPapers(_)
SortedPapers(ps) ==
  IF ps = <<>> THEN <<>>
  ELSE Insert(ps[Len(ps)], SortedPapers(SubSeq(ps, 1, Len(ps) - 1)))

\* x.title.lower() raises AttributeError when a title is None.
RenderRaises(ps) == \E i \in 1..Len(ps) : ps[i].title = None

\* MarkdownExporter.generate_markdown
MarkdownGenerate(ps, title, now) ==
  LET sorted == SortedPapers(ps)
  IN  << B("h_doc", <<title>>), B("generated", <<now>>) >>
      \o Concat([i \in 1..Len(sorted) |-> MarkdownFormatPaper(sorted[i])])

\* ObsidianExporter.generate_markdown
ObsidianGenerate(ps, title) ==
  LET sorted == SortedPapers(ps)
  IN  << B("front_matter", <<title>>), B("generated", <<>>) >>
      \o Concat([i \in 1..Len(sorted) |-> ObsidianFormatPaper(sorted[i])])

\* WebExporter.generate_html: the template with title and papers_json filled
\* in (the template has no place for the date it is given).
WebGenerate(ps, title) ==
  LET sorted == SortedPapers(ps)
  IN  << B("html_title", <<title>>), B("html_h1", <<title>>) >>
      \o Concat([i \in 1..Len(sorted) |-> WebFormatPaper(sorted[i])])

\* The renderer export_to_file of each exporter calls.
Generate(kind, ps, title, now) ==
  CASE kind = "markdown" -> MarkdownGenerate(ps, title, now)
    [] kind = "obsidian" -> ObsidianGenerate(ps, title)
    [] kind = "html" -> WebGenerate(ps, title)

(***************************************************************************)
(* Inputs                                                                  *)
(***************************************************************************)

\* The longest list of papers get_papers returns.
MaxPapers == 2

\* Labels as they are written in a summary.
TopicsTag   == <<"[", "T", "o", "p", "i", "c", "s", ":", "]">>
TldrTag     == <<"[", "T", "L", ";", "D", "R", ":", "]">>
TldrTagLow  == <<"[", "t", "l", ";", "d", "r", ":", "]">>
SummaryTag  == <<"[", "S", "u", "m", "m", "a", "r", "y", ":", "]">>
Bold        == <<"*", "*">>

\* Summary texts: well formed (with emphasis markup, an apostrophe and a stray
\* bracket), sections out of the usual order, a label twice, a label with a
\* blank value, a label without its opening bracket, a label repeated inside
\* a value, no label at all.
SumFull      == Bold \o TopicsTag \o Bold \o <<" ", "a", "'", "s", " ", "b", ",", " ", "B", " ", "c">>
                  \o <<"[", "n", "o", "t", "e", "]", " ", "z">>
                  \o TldrTag \o <<" ", "x">> \o SummaryTag \o <<" ", "y">>
SumReordered == SummaryTag \o <<" ", "y">> \o TopicsTag \o <<" ", "a">>
SumTwice     == TldrTag \o <<" ", "x">> \o TldrTagLow \o <<" ", "y">>
SumBlank     == TldrTag \o <<" ">>
SumNoBracket == Tail(TldrTag) \o <<" ", "x">>
SumInner     == SummaryTag \o <<" ", "x", " ">> \o Tail(SummaryTag) \o <<" ", "y">>
SumPlain     == <<"p", "l", "a", "i", "n", " ", "x">>

Url == <<"u">>

Paper(title, summary, pdf_url) == [title |-> title, summary |-> summary, pdf_url |-> pdf_url]

\* The records a store can hold.
Papers ==
  { Paper(Some(<<"b">>), Some(SumFull), Some(Url)),
    Paper(Some(<<"B">>), None, None),
    Paper(Some(<<"a">>), Some(SumReordered), None),
    Paper(Some(<<"A", "b">>), Some(SumTwice), Some(Url)),
    Paper(Some(<<"a">>), Some(SumBlank), Some(<<>>)),
    Paper(Some(<<"B">>), Some(SumNoBracket), None),
    Paper(Some(<<"A", "b">>), Some(SumInner), None),
    Paper(Some(<<"b">>), Some(SumPlain), Some(Url)),
    Paper(None, None, None) }

\* What get_papers can return: every list of records, in any order.
PaperLists == UNION {[1..n -> Papers] : n \in 0..MaxPapers}

\* Format selectors given to export_papers.
Formats ==
  { <<"m", "a", "r", "k", "d", "o", "w", "n">>,
    <<"o", "b", "s", "i", "d", "i", "a", "n">>,
    <<"h", "t", "m", "l">>,
    <<"H", "T", "M", "L">>,
    <<"p", "d", "f">> }

Exporters == {"markdown", "obsidian", "html"}

\* The default title of every export function.
DefaultTitle ==
  <<"R", "e", "s", "e", "a", "r", "c", "h", " ", "P", "a", "p", "e", "r", " ",
    "S", "u", "m", "m", "a", "r", "i", "e", "s">>

\* Values of datetime.now().strftime(...)
Timestamps == { <<"t", "1">> }

\* A file that is at the output path before the call.
OldFile == << B("old", <<>>) >>

(***************************************************************************)
(* State                                                                   *)
(***************************************************************************)

VARIABLES
  pc,          \* the step the call is at: "idle", a step name, "done" or "error"
  entry,       \* the function called: "export_papers" or "export_to_file"
  format,      \* the format argument of export_papers
  exporter,    \* the exporter whose export_to_file runs, or "none"
  papers,      \* the list get_papers returned
  content,     \* the rendered document (md_content, html_content)
  err,         \* the exception the call ended with, or "none"
  dir_exists,  \* whether output_file.parent exists
  file,        \* None when nothing is at output_path, else Some(its content)
  now,         \* what the clock gives
  ops,         \* the store and file operations the call has started, in order
  dir0,        \* dir_exists before the call
  file0        \* file before the call

vars == <<pc, entry, format, exporter, papers, content, err, dir_exists, file,
          now, ops, dir0, file0>>

Init ==
  /\ pc = "idle"
  /\ entry = "none"
  /\ format = <<>>
  /\ exporter = "none"
  /\ papers = <<>>
  /\ content = <<>>
  /\ err = "none"
  /\ dir_exists \in BOOLEAN
  /\ file \in (IF dir_exists THEN {None, Some(OldFile)} ELSE {None})
  /\ now \in Timestamps
  /\ ops = <<>>
  /\ dir0 = dir_exists
  /\ file0 = file

(***************************************************************************)
(* export_papers                                                           *)
(***************************************************************************)

\* A faulty variant of ExporterFor: an unknown selector falls back to the default format.
ExporterForDefault(fmt) ==
  IF Lower(fmt) = <<"o", "b", "s", "i", "d", "i", "a", "n">> THEN "obsidian"
  ELSE IF Lower(fmt) = <<"h", "t", "m", "l">> THEN "html"
  ELSE "markdown"

\* The if/elif chain on format.lower(): the exporter, or "none" for the else branch.
ExporterFor(fmt) ==
  IF Lower(fmt) = <<"m", "a", "r", "k", "d", "o", "w", "n">> THEN "markdown"
  ELSE IF Lower(fmt) = <<"o", "b", "s", "i", "d", "i", "a", "n">> THEN "obsidian"
  ELSE IF Lower(fmt) = <<"h", "t", "m", "l">> THEN "html"
  ELSE "none"

\* export_papers is called: db = Database(db_url) opens the store first.
ExportPapers ==
  /\ pc = "idle"
  /\ \E fmt \in Formats : format' = fmt
  /\ entry' = "export_papers"
  /\ ops' = Append(ops, "open_store")
  /\ pc' = "select"
  /\ UNCHANGED <<exporter, papers, content, err, dir_exists, file, now, dir0, file0>>

\* The exporter is chosen, or ValueError("Unsupported format") is raised.
SelectExporter ==
  /\ pc = "select"
  /\ IF ExporterFor(format) = "none"
     THEN /\ pc' = "error"
          /\ err' = "UnsupportedFormat"
          /\ UNCHANGED exporter
     ELSE /\ pc' = "query"
          /\ exporter' = ExporterFor(format)
          /\ UNCHANGED err
  /\ UNCHANGED <<entry, format, papers, content, dir_exists, file, now, ops, dir0, file0>>

(***************************************************************************)
(* export_to_file, the same steps in the three exporters                   *)
(***************************************************************************)

\* A faulty variant of StepAfter: the directory is made before the document is rendered.
StepAfterMkdirFirst(step) ==
  CASE step = "query" -> "mkdir"
    [] step = "mkdir" -> "render"
    [] step = "render" -> "open"
    [] step = "open" -> "write"
    [] step = "write" -> "done"

\* The order of the statements of export_to_file.
StepAfter(step) ==
  CASE step = "query" -> "render"
    [] step = "render" -> "mkdir"
    [] step = "mkdir" -> "open"
    [] step = "open" -> "write"
    [] step = "write" -> "done"

\* A faulty variant of EmptyResult: the check of the result is missing.
EmptyResultNever(ps) == FALSE

\* `if not papers`
EmptyResult(ps) == ps = <<>>

\* export_to_file is called on an exporter directly.
ExportToFile ==
  /\ pc = "idle"
  /\ \E kind \in Exporters : exporter' = kind
  /\ entry' = "export_to_file"
  /\ pc' = "query"
  /\ UNCHANGED <<format, papers, content, err, dir_exists, file, now, ops, dir0, file0>>

\* papers = self.db.get_papers(filters); an empty result raises ValueError("No papers found").
Query ==
  /\ pc = "query"
  /\ \E ps \in PaperLists : papers' = ps
  /\ ops' = Append(ops, "query")
  /\ IF EmptyResult(papers')
     THEN pc' = "error" /\ err' = "NoRecords"
     ELSE pc' = StepAfter("query") /\ UNCHANGED err
  /\ UNCHANGED <<entry, format, exporter, content, dir_exists, file, now, dir0, file0>>

\* md_content = self.generate_markdown(papers, title), or generate_html.
Render ==
  /\ pc = "render"
  /\ ops' = Append(ops, "render")
  /\ IF RenderRaises(papers)
     THEN pc' = "error" /\ err' = "RenderError" /\ UNCHANGED content
     ELSE /\ content' = Generate(exporter, papers, DefaultTitle, now)
          /\ pc' = StepAfter("render")
          /\ UNCHANGED err
  /\ UNCHANGED <<entry, format, exporter, papers, dir_exists, file, now, dir0, file0>>

\* output_file.parent.mkdir(parents=True, exist_ok=True) succeeds.
Mkdir ==
  /\ pc = "mkdir"
  /\ ops' = Append(ops, "mkdir")
  /\ dir_exists' = TRUE
  /\ pc' = StepAfter("mkdir")
  /\ UNCHANGED <<entry, format, exporter, papers, content, err, file, now, dir0, file0>>

\* mkdir raises OSError: nothing is made.
MkdirFails ==
  /\ pc = "mkdir"
  /\ ops' = Append(ops, "mkdir")
  /\ pc' = "error"
  /\ err' = "OSError"
  /\ UNCHANGED <<entry, format, exporter, papers, content, dir_exists, file, now, dir0, file0>>

\* open(output_path, 'w') succeeds: the file exists and is empty from here on.
OpenFile ==
  /\ pc = "open"
  /\ dir_exists
  /\ ops' = Append(ops, "open")
  /\ file' = Some(<<>>)
  /\ pc' = StepAfter("open")
  /\ UNCHANGED <<entry, format, exporter, papers, content, err, dir_exists, now, dir0, file0>>

\* open raises OSError: the path is left as it was.
OpenFails ==
  /\ pc = "open"
  /\ ops' = Append(ops, "open")
  /\ pc' = "error"
  /\ err' = "OSError"
  /\ UNCHANGED <<entry, format, exporter, papers, content, dir_exists, file, now, dir0, file0>>

\* f.write(content) and the close of the with block succeed.
WriteFile ==
  /\ pc = "write"
  /\ ops' = Append(ops, "write")
  /\ file' = Some(content)
  /\ pc' = StepAfter("write")
  /\ UNCHANGED <<entry, format, exporter, papers, content, err, dir_exists, now, dir0, file0>>

\* f.write or the flush raises (encoding error, full disk): the file, truncated
\* by open, holds a proper prefix of the document.
WriteFails ==
  /\ pc = "write"
  /\ ops' = Append(ops, "write")
  /\ \E n \in 0..(Len(content) - 1) : file' = Some(SubSeq(content, 1, n))
  /\ pc' = "error"
  /\ err' = "OSError"
  /\ UNCHANGED <<entry, format, exporter, papers, content, dir_exists, now, dir0, file0>>

Next ==
  \/ ExportPapers
  \/ SelectExporter
  \/ ExportToFile
  \/ Query
  \/ Render
  \/ Mkdir
  \/ MkdirFails
  \/ OpenFile
  \/ OpenFails
  \/ WriteFile
  \/ WriteFails

Spec == Init /\ [][Next]_vars

(***************************************************************************)
(* Vocabulary of the properties                                            *)
(***************************************************************************)

Range(seq) == {seq[i] : i \in 1..Len(seq)}

IsPrefix(a, b) == Len(a) <= Len(b) /\ SubSeq(b, 1, Len(a)) = a

\* The file operations of export_to_file.
FileOps == {"mkdir", "open", "write"}

\* The filesystem is as it was before the call.
FilesystemUntouched == file = file0 /\ dir_exists = dir0

\* The render step has just returned the document.
Rendered == pc = "mkdir" /\ content # <<>>

\* The positions of the paper headings of a document.
Heads(doc) == {i \in 1..Len(doc) : doc[i].k = "h_paper"}

\* The blocks of the j-th paper of a document: from its heading to the block
\* before the next paper's heading.
PaperSection(doc, j) ==
  LET first == CHOOSE i \in Heads(doc) : Cardinality({m \in Heads(doc) : m < i}) = j - 1
      later == {m \in Heads(doc) : m > first}
      last  == IF later = {} THEN Len(doc)
               ELSE (CHOOSE m \in later : \A x \in later : m <= x) - 1
  IN  SubSeq(doc, first, last)

\* The titles of the paper headings of a document, in document order.
RECURSIVE HeadingTitles(_)
HeadingTitles(doc) ==
  IF doc = <<>> THEN <<>>
  ELSE (IF Head(doc).k = "h_paper" THEN <<Head(doc).v[1]>> ELSE <<>>)
       \o HeadingTitles(Tail(doc))

\* How often x occurs in a sequence.
Count(seq, x) == Cardinality({i \in 1..Len(seq) : seq[i] = x})

\* The format selectors the specification names.
Recognized ==
  { <<"m", "a", "r", "k", "d", "o", "w", "n">>,
    <<"o", "b", "s", "i", "d", "i", "a", "n">>,
    <<"h", "t", "m", "l">> }

(***************************************************************************)
(* C1                                                                      *)
(***************************************************************************)

\* C1: in each exporter's export_to_file, when get_papers returns an empty
\* result the call ends in the no-records error, no file operation was
\* started, and the directory and the output file are as they were before.
C1_EmptyResultLeavesFilesystem ==
  (exporter # "none" /\ "query" \in Range(ops) /\ papers = <<>>)
    => /\ pc = "error"
       /\ err = "NoRecords"
       /\ Range(ops) \cap FileOps = {}
       /\ FilesystemUntouched

\* An export of an empty result over a file that exists.
C1_Witness ==
  /\ err = "NoRecords"
  /\ exporter = "html"
  /\ file0 = Some(OldFile)

(***************************************************************************)
(* C2                                                                      *)
(***************************************************************************)

\* C2 as claimed: a selector that is not one of the three values ends in the
\* unsupported-format error with no store operation (opening included) and
\* no file operation before it.
C2_AsClaimed ==
  (entry = "export_papers" /\ pc \notin {"idle", "select"} /\ Lower(format) \notin Recognized)
    => /\ err = "UnsupportedFormat"
       /\ ops = <<>>
       /\ FilesystemUntouched

\* C2, amended: the selector is compared lower-cased; a selector whose
\* lower-cased form is none of markdown, obsidian, html, and only such a
\* selector, ends in the unsupported-format error.  The store has then been
\* opened and nothing else: it was not queried and no file operation started.
C2_UnsupportedFormatAfterOpen ==
  (entry = "export_papers" /\ pc \notin {"idle", "select"})
    => /\ (Lower(format) \notin Recognized) <=> (err = "UnsupportedFormat")
       /\ (err = "UnsupportedFormat")
            => (pc = "error" /\ ops = <<"open_store">> /\ FilesystemUntouched)

\* export_papers("pdf") has raised.
C2_Witness ==
  /\ err = "UnsupportedFormat"
  /\ format = <<"p", "d", "f">>
  /\ file0 = Some(OldFile)

(***************************************************************************)
(* C3                                                                      *)
(***************************************************************************)

\* The steps of export_to_file in the order of the claim.
StepOrder == <<"query", "render", "mkdir", "open", "write">>

\* The operations of the export_to_file part of the call.
ExportOps == IF entry = "export_papers" THEN Tail(ops) ELSE ops

\* C3: the steps of export_to_file start in the order query, render, mkdir,
\* open/write; a failing render step ends the call with the directory not
\* created and the output file as it was.
C3_RenderBeforeFiles ==
  /\ (entry # "none") => IsPrefix(ExportOps, StepOrder)
  /\ ("render" \in Range(ops) /\ RenderRaises(papers))
       => (pc = "error" /\ err = "RenderError")
  /\ (err = "RenderError") => (FilesystemUntouched /\ Range(ops) \cap FileOps = {})

\* A render that failed where the destination directory did not exist.
C3_Witness ==
  /\ err = "RenderError"
  /\ ~dir0
  /\ Len(papers) = 2

(***************************************************************************)
(* C4                                                                      *)
(***************************************************************************)

\* No title of the sequence is less, lower-cased, than one before it.
AscendingLower(titles) ==
  \A i, j \in 1..Len(titles) :
    i < j => ~StrLess(Lower(titles[j]), Lower(titles[i]))

\* C4: the render step of each of the three renderers leaves the list it was
\* given as it is and returns a document whose paper sections are in
\* ascending order of lower-cased title, one section per record of the list.
C4_SortedOnePerRecord ==
  [][(pc = "render" /\ pc' = "mkdir")
       => /\ papers' = papers
          /\ AscendingLower(HeadingTitles(content'))
          /\ Len(HeadingTitles(content')) = Len(papers)
          /\ \A i \in 1..Len(papers) :
               Count(HeadingTitles(content'), papers[i].title[1])
                 = Count([m \in 1..Len(papers) |-> papers[m].title[1]], papers[i].title[1])
    ]_vars

\* A rendered list given in descending order, with an upper-case title last.
C4_Witness ==
  /\ Rendered
  /\ Len(papers) = 2
  /\ papers[1].title = Some(<<"b">>)
  /\ papers[2].title = Some(<<"A", "b">>)
  /\ HeadingTitles(content) = << <<"A", "b">>, <<"b">> >>

(***************************************************************************)
(* Vocabulary of the per-paper properties                                  *)
(***************************************************************************)

Labels == {"topics", "tldr", "summary"}

Kinds(sec) == {sec[i].k : i \in 1..Len(sec)}

\* The paper whose section is the j-th of the rendered document.
PaperAt(j) == SortedPapers(papers)[j]

\* The summary text of a paper, "" when it has none.
SummaryText(p) == IF p.summary = None THEN <<>> ELSE p.summary[1]

\* The sections of a paper's summary that take the branch of label l, in order.
MatchingSections(p, l) ==
  LET Matches(section) == SectionLabel(section) = l
  IN  SelectSeq(SectionsOf(p), Matches)

\* The labels of the sections of a paper's summary that take a branch, in order.
MatchedLabels(p) ==
  LET secs == SectionsOf(p)
      Matches(section) == SectionLabel(section) # "none"
      kept == SelectSeq(secs, Matches)
  IN  [i \in 1..Len(kept) |-> SectionLabel(kept[i])]

\* The strings of the blocks of kind k, in order.
RECURSIVE ValuesOf(_, _)
ValuesOf(sec, k) ==
  IF sec = <<>> THEN <<>>
  ELSE (IF Head(sec).k = k THEN <<Head(sec).v>> ELSE <<>>) \o ValuesOf(Tail(sec), k)

\* The strings of the blocks that follow a block of kind k, in order.
RECURSIVE ValuesAfter(_, _)
ValuesAfter(sec, k) ==
  IF Len(sec) < 2 THEN <<>>
  ELSE (IF Head(sec).k = k THEN <<sec[2].v>> ELSE <<>>) \o ValuesAfter(Tail(sec), k)

JsonKind(l) ==
  CASE l = "topics" -> "json_topics"
    [] l = "tldr" -> "json_tldr"
    [] l = "summary" -> "json_summary"

\* What a section of the output of a renderer shows for a label: one entry
\* per subsection (plain document, note), or the entry of the record (page).
Shown(kind, sec, l) ==
  CASE kind = "html" -> ValuesOf(sec, JsonKind(l))
    [] kind = "obsidian" /\ l = "topics" -> ValuesOf(sec, "tags")
    [] OTHER -> ValuesAfter(sec, HeadingKind(l))

\* How a renderer shows the value of a label.
ShownAs(kind, l, value) ==
  CASE kind = "html" /\ l = "topics" -> TopicList(value)
    [] kind = "obsidian" /\ l = "topics" ->
         [i \in 1..Len(TopicList(value)) |-> TopicTag(TopicList(value)[i])]
    [] OTHER -> <<value>>

\* A section with only its leading label and bracket removed, then trimmed.
PrefixStripped(section, l) ==
  Strip(SubSeq(section, Len(LabelText(l)) + 1, Len(section)))

(***************************************************************************)
(* C5                                                                      *)
(***************************************************************************)

\* C5 as claimed: the plain-document and note renderers omit the TL;DR and
\* Summary subheadings of a record whose parsed tldr and summary are empty
\* (a label followed only by whitespace included) and keep its heading.
C5_AsClaimed ==
  (Rendered /\ exporter \in {"markdown", "obsidian"})
    => \A j \in 1..Len(papers) :
         LET sec == PaperSection(content, j)
             parsed == PaperDict(PaperAt(j))
         IN  /\ sec[1].k = "h_paper"
             /\ (parsed.tldr = <<>>) => ("h_tldr" \notin Kinds(sec))
             /\ (parsed.summary = <<>>) => ("h_summary" \notin Kinds(sec))

(***************************************************************************)
(* C6                                                                      *)
(***************************************************************************)

\* C6 as claimed: a summary with no "[" gives empty topics, tldr and summary:
\* the record of the page has topics=[], tldr="", summary="", and the section
\* of the plain document and of the note has no Topics, TL;DR or Summary part.
C6_AsClaimed ==
  Rendered
    => \A j \in 1..Len(papers) :
         LET sec == PaperSection(content, j)
         IN  ("[" \notin Range(SummaryText(PaperAt(j))))
               => IF exporter = "html"
                  THEN /\ ValuesOf(sec, "json_topics") = << <<>> >>
                       /\ ValuesOf(sec, "json_tldr") = << << <<>> >> >>
                       /\ ValuesOf(sec, "json_summary") = << << <<>> >> >>
                  ELSE Kinds(sec) \cap {"h_topics", "tags", "h_tldr", "h_summary"} = {}

(***************************************************************************)
(* C7                                                                      *)
(***************************************************************************)

\* C7 as claimed: when several sections of a summary match the same label,
\* every renderer shows exactly one value for the label, that of the last
\* matching section.
C7_AsClaimed ==
  Rendered
    => \A j \in 1..Len(papers) : \A l \in Labels :
         LET ms == MatchingSections(PaperAt(j), l)
         IN  (Len(ms) >= 2)
               => Shown(exporter, PaperSection(content, j), l)
                    = << ShownAs(exporter, l, SectionValue(ms[Len(ms)])) >>

\* C7, amended: in the page renderer the last matching section of a label
\* wins: the record holds its value alone.  The plain-document and note
\* renderers emit one subsection per matching section, each with its own
\* value, in the order the sections occur in the summary.
C7_LastWinsInPageOnly ==
  Rendered
    => \A j \in 1..Len(papers) : \A l \in Labels :
         LET ms == MatchingSections(PaperAt(j), l)
             shown == Shown(exporter, PaperSection(content, j), l)
         IN  IF exporter = "html"
             THEN (Len(ms) >= 1)
                    => shown = << ShownAs(exporter, l, SectionValue(ms[Len(ms)])) >>
             ELSE shown = [i \in 1..Len(ms) |-> ShownAs(exporter, l, SectionValue(ms[i]))]

\* A page rendered from a summary with two TL;DR sections.
C7_Witness ==
  /\ Rendered
  /\ exporter = "html"
  /\ \E j \in 1..Len(papers) :
       /\ Len(MatchingSections(PaperAt(j), "tldr")) = 2
       /\ ValuesOf(PaperSection(content, j), "json_tldr") = << << <<"y">> >> >>

(***************************************************************************)
(* C8                                                                      *)
(***************************************************************************)

\* C8 as claimed: the value of a matching section is the section with only
\* its leading label and bracket removed, trimmed; the same label text later
\* in the section stays in the value.
C8_AsClaimed ==
  Rendered
    => \A j \in 1..Len(papers) : \A l \in Labels :
         LET ms == MatchingSections(PaperAt(j), l)
             shown == Shown(exporter, PaperSection(content, j), l)
         IN  IF exporter = "html"
             THEN (Len(ms) >= 1)
                    => shown = << ShownAs(exporter, l, PrefixStripped(ms[Len(ms)], l)) >>
             ELSE shown = [i \in 1..Len(ms) |-> ShownAs(exporter, l, PrefixStripped(ms[i], l))]

(***************************************************************************)
(* C9                                                                      *)
(***************************************************************************)

\* The place of a part in the order of the claim; a value goes with its subheading.
Rank(k) ==
  CASE k = "h_paper" -> 1
    [] k = "h_topics" -> 2
    [] k = "h_tldr" -> 3
    [] k = "h_summary" -> 4
    [] k = "paper_url" -> 5
    [] k = "rule" -> 6

PartsOf(sec) ==
  LET IsPart(b) == b.k # "text" IN SelectSeq(sec, IsPart)

\* C9 as claimed: in the plain document the parts of a paper section are in
\* the order heading, Topics, TL;DR, Summary, URL line, rule, whatever the
\* order of the sections in the summary.
C9_AsClaimed ==
  (Rendered /\ exporter = "markdown")
    => \A j \in 1..Len(papers) :
         LET parts == PartsOf(PaperSection(content, j))
         IN  \A a, b \in 1..Len(parts) : a < b => Rank(parts[a].k) <= Rank(parts[b].k)

\* C9, amended: in the plain document a paper section is the paper heading,
\* then one subsection (subheading and value) per labeled section of the
\* summary in the order the sections occur in the summary text, then the URL
\* line when the record has a URL, then the rule.
C9_PartsInSummaryOrder ==
  (Rendered /\ exporter = "markdown")
    => \A j \in 1..Len(papers) :
         LET sec == PaperSection(content, j)
             n == Len(sec)
             labs == MatchedLabels(PaperAt(j))
             url == IF Truthy(PaperAt(j).pdf_url) THEN 1 ELSE 0
         IN  /\ n = 2 + 2 * Len(labs) + url
             /\ sec[1].k = "h_paper"
             /\ \A i \in 1..Len(labs) :
                  sec[2 * i].k = HeadingKind(labs[i]) /\ sec[2 * i + 1].k = "text"
             /\ (url = 1) => sec[n - 1] = B("paper_url", <<PaperAt(j).pdf_url[1]>>)
             /\ sec[n].k = "rule"

\* A plain document rendered from a summary whose Summary section comes
\* before its Topics section, for a record without a URL.
C9_Witness ==
  /\ Rendered
  /\ exporter = "markdown"
  /\ \E j \in 1..Len(papers) :
       /\ MatchedLabels(PaperAt(j)) = <<"summary", "topics">>
       /\ [i \in 1..Len(PaperSection(content, j)) |-> PaperSection(content, j)[i].k]
            = <<"h_paper", "h_summary", "text", "h_topics", "text", "rule">>

(***************************************************************************)
(* C10                                                                     *)
(***************************************************************************)

\* C10 as claimed: when export_to_file has ended, in success or in any
\* failure (that of the write included), the output path holds what it held
\* before the call or the complete rendered document.
C10_AsClaimed ==
  (pc \in {"done", "error"})
    => \/ file = file0
       \/ (content # <<>> /\ file = Some(content))

====
